---- MODULE Spec2Model ----
(***************************************************************************)
(* Call-distribution core of thetechnoking/asterisk_queue:                 *)
(*   src/unnamed/part_000            timeUtils.js (parseTimings)           *)
(*   src/src/services/queueService.js  queue/agent repository, selector    *)
(*   src/src/services/ariService.js    StasisStart / StasisEnd router      *)
(* JavaScript strings are modelled as sequences of one-character strings,  *)
(* so that split, trim, indexOf, Number and the default Array.sort order   *)
(* are computed rather than assumed.                                       *)
(***************************************************************************)
EXTENDS Integers, Sequences, FiniteSets, TLC

(***************************************************************************)
(* JavaScript string primitives used by the source                         *)
(***************************************************************************)

\* Number(x) of a non-numeric string, and the value an absent (undefined)
\* destructured element gives to isNaN: both are NaN.
NaN == -1

isNaN(x) == x = NaN

Digits == {"0", "1", "2", "3", "4", "5", "6", "7", "8", "9"}

DigitVal(ch) ==
    CASE ch = "0" -> 0 [] ch = "1" -> 1 [] ch = "2" -> 2 [] ch = "3" -> 3
      [] ch = "4" -> 4 [] ch = "5" -> 5 [] ch = "6" -> 6 [] ch = "7" -> 7
      [] ch = "8" -> 8 [] ch = "9" -> 9

\* UTF-16 code unit of the characters that occur in agent ids.
CharCode(ch) == IF ch \in Digits THEN 48 + DigitVal(ch) ELSE 0

RECURSIVE SplitFrom(_, _, _, _)
SplitFrom(s, sep, i, cur) ==
    IF i > Len(s) THEN <<cur>>
    ELSE IF s[i] = sep THEN <<cur>> \o SplitFrom(s, sep, i + 1, <<>>)
    ELSE SplitFrom(s, sep, i + 1, Append(cur, s[i]))

\* String.prototype.split(sep) for a one-character separator.
Split(s, sep) == SplitFrom(s, sep, 1, <<>>)

RECURSIVE TrimLeft(_)
TrimLeft(s) == IF s # <<>> /\ Head(s) = " " THEN TrimLeft(Tail(s)) ELSE s

RECURSIVE TrimRight(_)
TrimRight(s) ==
    IF s # <<>> /\ s[Len(s)] = " " THEN TrimRight(SubSeq(s, 1, Len(s) - 1)) ELSE s

\* String.prototype.trim()
Trim(s) == TrimRight(TrimLeft(s))

UpperChar(ch) ==
    CASE ch = "a" -> "A" [] ch = "d" -> "D" [] ch = "e" -> "E" [] ch = "h" -> "H"
      [] ch = "i" -> "I" [] ch = "n" -> "N" [] ch = "o" -> "O" [] ch = "r" -> "R"
      [] ch = "t" -> "T" [] ch = "u" -> "U"
      [] OTHER -> ch

\* String.prototype.toUpperCase()
ToUpperCase(s) == [i \in 1..Len(s) |-> UpperChar(s[i])]

\* String.prototype.includes(ch)
Includes(s, ch) == \E i \in 1..Len(s) : s[i] = ch

\* Array.prototype.indexOf: zero-based index of the first match, or -1.
IndexOf(arr, x) ==
    IF \E i \in 1..Len(arr) : arr[i] = x
    THEN (CHOOSE i \in 1..Len(arr) : arr[i] = x /\ \A j \in 1..(i - 1) : arr[j] # x) - 1
    ELSE -1

RECURSIVE DecimalValue(_, _)
DecimalValue(s, acc) ==
    IF s = <<>> THEN acc ELSE DecimalValue(Tail(s), 10 * acc + DigitVal(Head(s)))

\* Number(str): white space is stripped, the empty string is 0, a string of
\* decimal digits is its value, any other string of the rule alphabet is NaN.
Number(str) ==
    LET t == Trim(str)
    IN  IF \A i \in 1..Len(t) : t[i] \in Digits THEN DecimalValue(t, 0) ELSE NaN

\* [a, b] = parts.map(Number): element i of the mapped array, undefined
\* (NaN under isNaN) when the array is shorter.
NumberAt(parts, i) == IF i <= Len(parts) THEN Number(parts[i]) ELSE NaN

(***************************************************************************)
(* timeUtils.js                                                            *)
(***************************************************************************)

daysOfWeek ==
    << <<"S", "u", "n">>, <<"M", "o", "n">>, <<"T", "u", "e">>, <<"W", "e", "d">>,
       <<"T", "h", "u">>, <<"F", "r", "i">>, <<"S", "a", "t">> >>

\* A Date is modelled by what parseTimings reads of it: getDay(), getHours(),
\* getMinutes().
currentDay(currentTime) == daysOfWeek[currentTime.day + 1]

currentTimeInMinutes(currentTime) == currentTime.hour * 60 + currentTime.minute

\* One day segment of a rule's day-spec: a single day or a range Day-Day.
SegmentMatches(segment, currentTime) ==
    IF Includes(segment, "-")
    THEN LET sp == Split(segment, "-")
             startIndex == IndexOf(daysOfWeek, sp[1])
             endIndex == IndexOf(daysOfWeek, sp[2])
             currentDayIndex == IndexOf(daysOfWeek, currentDay(currentTime))
         IN  /\ startIndex # -1 /\ endIndex # -1 /\ currentDayIndex # -1
             /\ IF startIndex <= endIndex
                THEN currentDayIndex >= startIndex /\ currentDayIndex <= endIndex
                ELSE currentDayIndex >= startIndex \/ currentDayIndex <= endIndex
    ELSE segment = currentDay(currentTime)

dayMatch(daysStr, currentTime) ==
    LET daySegments == Split(daysStr, ",")
    IN  \E k \in 1..Len(daySegments) : SegmentMatches(daySegments[k], currentTime)

\* A range that takes the end 00:00 as minute 0 whatever the start is.
RangeAdmits_NoMidnight(timeRangeStr, currentTime) ==
    LET sp == Split(timeRangeStr, "-")
        startTimeStr == sp[1]
        endTimeStr == IF Len(sp) >= 2 THEN sp[2] ELSE <<>>
        st == Split(startTimeStr, ":")
        en == Split(endTimeStr, ":")
        startTimeInMinutes == NumberAt(st, 1) * 60 + NumberAt(st, 2)
        endTimeInMinutes == NumberAt(en, 1) * 60 + NumberAt(en, 2)
    IN  /\ startTimeStr # <<>> /\ endTimeStr # <<>>
        /\ ~(\/ isNaN(NumberAt(st, 1)) \/ isNaN(NumberAt(st, 2))
             \/ isNaN(NumberAt(en, 1)) \/ isNaN(NumberAt(en, 2)))
        /\ startTimeInMinutes <= endTimeInMinutes
        /\ currentTimeInMinutes(currentTime) >= startTimeInMinutes
        /\ currentTimeInMinutes(currentTime) < endTimeInMinutes

\* One HH:MM-HH:MM range of a rule whose day-spec matched.
RangeAdmits(timeRangeStr, currentTime) ==
    LET sp == Split(timeRangeStr, "-")
        startTimeStr == sp[1]
        endTimeStr == IF Len(sp) >= 2 THEN sp[2] ELSE <<>>
        st == Split(startTimeStr, ":")
        en == Split(endTimeStr, ":")
        startHour == NumberAt(st, 1)
        startMinute == NumberAt(st, 2)
        endHour == NumberAt(en, 1)
        endMinute == NumberAt(en, 2)
        startTimeInMinutes == startHour * 60 + startMinute
        endTimeInMinutes ==
            IF endHour = 0 /\ endMinute = 0 /\ startTimeInMinutes > 0
            THEN 24 * 60
            ELSE endHour * 60 + endMinute
    IN  /\ startTimeStr # <<>> /\ endTimeStr # <<>>
        /\ ~(isNaN(startHour) \/ isNaN(startMinute) \/ isNaN(endHour) \/ isNaN(endMinute))
        /\ startTimeInMinutes <= endTimeInMinutes
        /\ currentTimeInMinutes(currentTime) >= startTimeInMinutes
        /\ currentTimeInMinutes(currentTime) < endTimeInMinutes

RuleAdmits(rule, currentTime) ==
    LET parts == Split(Trim(rule), ";")
    IN  /\ Len(parts) = 2
        /\ dayMatch(parts[2], currentTime)
        /\ LET individualTimeRanges == Split(parts[1], ",")
           IN  \E k \in 1..Len(individualTimeRanges) :
                   RangeAdmits(individualTimeRanges[k], currentTime)

Str247 == <<"2", "4", "/", "7">>

parseTimings(timingsString, currentTime) ==
    IF timingsString = <<>> THEN FALSE
    ELSE IF ToUpperCase(Trim(timingsString)) = Str247 THEN TRUE
    ELSE LET rules == Split(timingsString, "|")
         IN  \E k \in 1..Len(rules) : RuleAdmits(rules[k], currentTime)

(***************************************************************************)
(* Identifiers, instants and the shared store                              *)
(***************************************************************************)

\* Agent ids are strings; "10" sorts before "2" under Array.prototype.sort().
A1 == <<"1">>
A10 == <<"1", "0">>
A2 == <<"2">>
AgentIds == {A1, A10, A2}

QueueIds == {"Q1", "Q2"}

\* null / undefined / the empty string: every falsy string-valued result.
NoVal == <<>>

BizHours ==
    <<"0", "9", ":", "0", "0", "-", "1", "7", ":", "0", "0", ";",
      "M", "o", "n", "-", "F", "r", "i">>

TimingStrings == {Str247, BizHours}

MonTen == [day |-> 1, hour |-> 10, minute |-> 0]
SatTwo == [day |-> 6, hour |-> 14, minute |-> 0]
Instants == {MonTen, SatTwo}

\* The instant that follows: time only moves forward, week after week.
NextInstant(t) == IF t = MonTen THEN SatTwo ELSE MonTen

\* An absent hash: hgetall answers {} and every field reads as undefined.
EmptyAgentHash ==
    [name |-> "", endpoint |-> "", shiftTimings |-> NoVal, status |-> "",
     loggedInQueues |-> <<>>]

EmptyQueueHash == [name |-> "", strategy |-> "", timings |-> NoVal, status |-> ""]

\* The queue hashes createQueue has written: Q1 is always open, Q2 keeps
\* business hours; any other queue id has no hash.
QueueStore(queueId) ==
    CASE queueId = "Q1" ->
           [name |-> "q1", strategy |-> "ROUND_ROBIN", timings |-> Str247, status |-> "CLOSED"]
      [] queueId = "Q2" ->
           [name |-> "q2", strategy |-> "ROUND_ROBIN", timings |-> BizHours, status |-> "CLOSED"]
      [] OTHER -> EmptyQueueHash

VARIABLES
    agents,        \* callcenter:CC:agent:<id> hashes
    agentsMaster,  \* callcenter:CC:agents_master set
    loggedIn,      \* callcenter:CC:queue:<q>:agents_loggedIn sets
    rrPointer,     \* callcenter:CC:queue:<q>:lastAgentRR strings
    calls,         \* callcenter:CC:queue:<q>:calls lists
    now,           \* what new Date() answers
    call,          \* per caller channel: the channel object and handler position
    admin,         \* the repository operation in progress (agentLogin, ...)
    budget,        \* operations and clock ticks still allowed by the bounds
    rrHist,        \* record of the completed selections on RRQueue
    qHist,         \* record of the waiting-list operations of SpecQueue
    timing         \* the parseTimings call of SpecTimings: arguments and results

vars == <<agents, agentsMaster, loggedIn, rrPointer, calls, now, call, admin, budget, rrHist, qHist, timing>>

(***************************************************************************)
(* queueService.js: reads                                                  *)
(***************************************************************************)

\* getAgentDetails: success iff the hash is not empty (lines 123-134).
getAgentDetails(agentId) ==
    IF agents[agentId] = EmptyAgentHash
    THEN [success |-> FALSE, data |-> EmptyAgentHash]
    ELSE [success |-> TRUE, data |-> agents[agentId]]

\* getQueueDetails: success iff the hash is not empty (lines 58-66).
getQueueDetails(queueId) ==
    IF QueueStore(queueId) = EmptyQueueHash
    THEN [success |-> FALSE, data |-> EmptyQueueHash]
    ELSE [success |-> TRUE, data |-> QueueStore(queueId)]

\* isAgentOnShift(agentId, t): load the agent, evaluate shiftTimings.
isAgentOnShift(agentId, t) ==
    LET r == getAgentDetails(agentId)
    IN  [success |-> r.success,
         isOnShift |-> r.success /\ parseTimings(r.data.shiftTimings, t)]

\* isQueueActive(queueId, t): load the queue, evaluate timings.
isQueueActive(queueId, t) ==
    LET r == getQueueDetails(queueId)
    IN  [success |-> r.success,
         isActive |-> r.success /\ parseTimings(r.data.timings, t)]

(***************************************************************************)
(* queueService.js: findAgentForCall_RoundRobin, the pure parts            *)
(***************************************************************************)

\* Order of the default comparator of Array.prototype.sort: by UTF-16 code
\* units, a proper prefix first.
LexLess(a, b) ==
    \E i \in 1..(Len(b)) :
        /\ \A j \in 1..(i - 1) : j <= Len(a) /\ a[j] = b[j]
        /\ \/ i > Len(a)
           \/ i <= Len(a) /\ CharCode(a[i]) < CharCode(b[i])

\* A comparator by numeric value, as sort((a, b) => a - b) would order ids.
NumericLess(a, b) == DecimalValue(a, 0) < DecimalValue(b, 0)

RECURSIVE SortAgents_Numeric(_)
SortAgents_Numeric(S) ==
    IF S = {} THEN <<>>
    ELSE LET m == CHOOSE x \in S : \A y \in S \ {x} : NumericLess(x, y)
         IN  <<m>> \o SortAgents_Numeric(S \ {m})

\* trulyAvailableAgents.sort() (line 313): the ids pushed by the loop, in the
\* order of the default comparator.
RECURSIVE SortAgents(_)
SortAgents(S) ==
    IF S = {} THEN <<>>
    ELSE LET m == CHOOSE x \in S : \A y \in S \ {x} : LexLess(x, y)
         IN  <<m>> \o SortAgents(S \ {m})

\* Lines 297-300: the agent is AVAILABLE and on shift at currentTime.
TrulyAvailable(agentId, currentTime) ==
    LET agentDetailsResult == getAgentDetails(agentId)
        onShiftResult == isAgentOnShift(agentId, currentTime)
    IN  /\ agentDetailsResult.success
        /\ agentDetailsResult.data.status = "AVAILABLE"
        /\ onShiftResult.success /\ onShiftResult.isOnShift

\* The successor without the wrap-around: the last index is kept at the end.
RoundRobinPick_NoWrap(trulyAvailableAgents, lastAgentId) ==
    IF lastAgentId # NoVal /\ IndexOf(trulyAvailableAgents, lastAgentId) # -1
    THEN LET lastIndex == IndexOf(trulyAvailableAgents, lastAgentId)
         IN  IF lastIndex + 1 < Len(trulyAvailableAgents)
             THEN trulyAvailableAgents[lastIndex + 2]
             ELSE trulyAvailableAgents[lastIndex + 1]
    ELSE trulyAvailableAgents[1]

\* Lines 318-323: the element after lastAgentId, cyclically, else the first.
RoundRobinPick(trulyAvailableAgents, lastAgentId) ==
    IF lastAgentId # NoVal /\ IndexOf(trulyAvailableAgents, lastAgentId) # -1
    THEN LET lastIndex == IndexOf(trulyAvailableAgents, lastAgentId)
         IN  trulyAvailableAgents[((lastIndex + 1) % Len(trulyAvailableAgents)) + 1]
    ELSE trulyAvailableAgents[1]

\* findAgentForCall_RoundRobin run to completion with no other store client
\* in between (lines 285-323): the agent it selects, NoVal for data null.
SelectedAgent(queueId, currentTime) ==
    LET loggedInAgents == loggedIn[queueId]
        trulyAvailableAgents == {a \in loggedInAgents : TrulyAvailable(a, currentTime)}
    IN  IF trulyAvailableAgents = {} THEN NoVal
        ELSE RoundRobinPick(SortAgents(trulyAvailableAgents), rrPointer[queueId])

(***************************************************************************)
(* Bounds                                                                  *)
(***************************************************************************)

MaxSelections == 6

(***************************************************************************)
(* Caller channels and the repository operation in progress                *)
(***************************************************************************)

Channels == {"c1", "c2"}

NoDate == [day |-> 0, hour |-> 0, minute |-> 0]

NoRecord == [ariChannelId |-> "", callerNumber |-> "", enqueueTime |-> NoDate]

\* channel.caller.number of each caller channel.
CallerNumber(c) == IF c = "c1" THEN "1001" ELSE "1002"

\* A caller channel that has not entered the application yet.
\*   pc      the store or media-server request the StasisStart handler (and
\*           the callbacks nested in it) is waiting on
\*   state   channel.state of the channel object the handlers hold
\*   cc, q   channel.dialplan.CALL_CENTER_ID / QUEUE_ID ("" when missing)
\*   live    the caller channel is still in the application
\*   ended   the StasisEnd handler has run for the channel
\*   ops     the requests issued on the caller channel, in order
\*   date    the new Date() handed to the pending call
\*   todo, avail   loggedInAgents still to examine, trulyAvailableAgents
\*   agent   selectedAgentId / agentId
\*   rec     the waiting record handed to the pending addCallToQueue
\*   leg     the originated agent channel
\*   legOps  the hangup requests issued on the agent channel
\*   legPc   the StasisStart handler of line 8 run for the agent channel:
\*           "none", or "hungup" once it has requested the hangup of line 31
\*   bridge  the mixing bridge: "none", "createFailed", "created" or
\*           "destroyed"
\*   dpc     the ChannelDestroyed handler of the agent channel
\*   entry, bridged, closed, nSel   history: state at entry, addChannel
\*           succeeded, the queue was found closed, selector runs
\*   selFailed   history: the selector returned success false
IdleCall ==
    [pc |-> "idle", state |-> "", entry |-> "", cc |-> "", q |-> "", live |-> FALSE,
     ended |-> FALSE, ops |-> <<>>, date |-> NoDate, todo |-> {}, avail |-> {},
     agent |-> NoVal, rec |-> NoRecord, leg |-> "none", dpc |-> "none",
     legOps |-> <<>>, legPc |-> "none", bridge |-> "none",
     bridged |-> FALSE, closed |-> FALSE, nSel |-> 0, selFailed |-> FALSE]

\* No repository operation in progress.
\*   op, pc    the operation and the store request it is waiting on
\*   agentId, queueIds, shiftTimings   its arguments
\*   date      the new Date() handed to isAgentOnShift
\*   i         the position of the loop over the queue ids
\*   before    the agent's hash and the logged-in sets when it was called
\*   last, ret the operation that returned last and what it returned
IdleAdmin ==
    [op |-> "none", pc |-> "", agentId |-> NoVal, queueIds |-> <<>>,
     shiftTimings |-> NoVal, date |-> NoDate, i |-> 0,
     before |-> [agent |-> EmptyAgentHash, loggedIn |-> [q \in QueueIds |-> {}]],
     last |-> "none", ret |-> ""]

\* No waiting-list operation made yet.
\*   op, queueId, channelId   the last operation and its arguments
\*   before    the waiting list of queueId when it was called
\*   removed   the count removeCallFromQueue reported
\*   record    the record getNextCallFromQueue returned
\*   wasClean  a removal of channelId from queueId had removed a record
\*             before, with no enqueue of channelId there since
\*   clean     the pairs of queue and channel for which that holds now
NoQHist ==
    [op |-> "none", queueId |-> "", channelId |-> "", before |-> <<>>, removed |-> 0,
     record |-> NoRecord, wasClean |-> FALSE, clean |-> {}]

NoHist ==
    [calls |-> 0, n |-> 0, count |-> [a \in AgentIds |-> 0], ret |-> NoVal,
     prevPtr |-> NoVal, repeated |-> FALSE]

\* No parseTimings call under examination.
\*   form      "always" for the 24/7 form, "rules" for a rule list
\*   ranges    the time ranges of the rule, as start and end minutes of day
\*   days      the day-spec of the rule
\*   s, r, t   the rule string, the additional rule and the instant
\*   pc        "args", then "single" once parseTimings(s, t) has returned,
\*             then "joined" once both joined strings have been evaluated
\*   res, left, right   parseTimings of s, of r|s and of s|r at t
NoEval ==
    [form |-> "none", ranges |-> <<>>, days |-> <<>>, s |-> <<>>, r |-> <<>>,
     t |-> NoDate, pc |-> "none", res |-> FALSE, left |-> FALSE, right |-> FALSE]

(***************************************************************************)
(* SpecRR: successive, non-overlapping selections on one queue over a      *)
(* store that no other operation changes                                   *)
(***************************************************************************)

RRQueue == "Q1"

\* Any store content the repository operations can leave for RRQueue.
InitRR ==
    /\ agents \in [AgentIds ->
          {[name |-> "agent", endpoint |-> "PJSIP/agent", shiftTimings |-> st,
            status |-> s, loggedInQueues |-> IF s = "AVAILABLE" THEN <<RRQueue>> ELSE <<>>] :
              st \in TimingStrings, s \in {"LOGGED_OUT", "AVAILABLE"}}]
    /\ agentsMaster = AgentIds
    /\ \E members \in SUBSET AgentIds :
           loggedIn = [q \in QueueIds |-> IF q = RRQueue THEN members ELSE {}]
    /\ \E p \in AgentIds \cup {NoVal} :
           rrPointer = [q \in QueueIds |-> IF q = RRQueue THEN p ELSE NoVal]
    /\ calls = [q \in QueueIds |-> <<>>]
    /\ now \in Instants
    /\ call = [c \in Channels |-> IdleCall]
    /\ admin = IdleAdmin
    /\ budget = [admin |-> 0, ticks |-> 0]
    /\ rrHist = NoHist
    /\ qHist = NoQHist
    /\ timing = NoEval

\* One call that selects an agent: the pointer is written (line 326) and the
\* agent returned (line 328).
RRSelectAgent ==
    LET selectedAgentId == SelectedAgent(RRQueue, now)
    IN  /\ rrHist.n < MaxSelections
        /\ selectedAgentId # NoVal
        /\ rrPointer' = [rrPointer EXCEPT ![RRQueue] = selectedAgentId]
        /\ rrHist' =
             [calls |-> rrHist.calls + 1,
              n |-> rrHist.n + 1,
              count |-> [rrHist.count EXCEPT ![selectedAgentId] = @ + 1],
              ret |-> selectedAgentId,
              prevPtr |-> rrPointer[RRQueue],
              repeated |-> rrHist.repeated \/ (rrHist.n > 0 /\ rrHist.ret = selectedAgentId)]
        /\ UNCHANGED <<agents, agentsMaster, loggedIn, calls, now, call, admin, budget, qHist, timing>>

\* One call that finds nobody: data null (lines 287-290, 308-311), nothing
\* is written.
RRSelectNone ==
    /\ rrHist.calls < MaxSelections
    /\ SelectedAgent(RRQueue, now) = NoVal
    /\ rrHist' = [rrHist EXCEPT !.calls = @ + 1, !.ret = NoVal,
                                !.prevPtr = rrPointer[RRQueue]]
    /\ UNCHANGED <<agents, agentsMaster, loggedIn, rrPointer, calls, now, call, admin, budget, qHist, timing>>

NextRR == RRSelectAgent \/ RRSelectNone

SpecRR == InitRR /\ [][NextRR]_vars

(***************************************************************************)
(* Claims on the selector                                                  *)
(***************************************************************************)

\* The ids in the order "1" < "10" < "2" of their UTF-16 code units.
LexOrder == <<A1, A10, A2>>

Rank(a) == CHOOSE i \in 1..Len(LexOrder) : LexOrder[i] = a

\* The agents of queueId that are AVAILABLE and on shift at instant t.
EligibleSet(queueId, t) ==
    {a \in AgentIds : /\ a \in loggedIn[queueId]
                      /\ agents[a].status = "AVAILABLE"
                      /\ parseTimings(agents[a].shiftTimings, t)}

FirstOf(E) == CHOOSE x \in E : \A y \in E : Rank(x) <= Rank(y)

\* The member of E that follows p in LexOrder, the first member after the last.
SuccessorIn(E, p) ==
    LET later == {x \in E : Rank(x) > Rank(p)}
    IN  IF later = {} THEN FirstOf(E) ELSE FirstOf(later)

\* C1: on a non-empty eligible list the selector returns the cyclic successor,
\* in lexicographic id order, of the agent the pointer named before the call
\* when that agent is eligible, the first eligible agent otherwise, and the
\* pointer then names the returned agent.
C1_ReturnsSuccessor ==
    LET E == EligibleSet(RRQueue, now)
        p == rrHist.prevPtr
    IN  (rrHist.calls > 0 /\ E # {}) =>
            /\ rrHist.ret \in E
            /\ (p \in E => rrHist.ret = SuccessorIn(E, p))
            /\ (p \notin E => rrHist.ret = FirstOf(E))
            /\ rrPointer[RRQueue] = rrHist.ret

\* The selection wrapped around: the pointer named the last id of a list of
\* three and the first one was returned.
C1_Witness ==
    /\ rrHist.calls > 0
    /\ EligibleSet(RRQueue, now) = AgentIds
    /\ rrHist.prevPtr = A2
    /\ rrHist.ret = A1

\* C2: after n successful selections over an unchanged eligible list of size
\* k, every eligible agent was selected floor(n/k) or ceil(n/k) times, and for
\* k >= 2 no two consecutive selections returned the same agent.
C2_FairRotation ==
    LET E == EligibleSet(RRQueue, now)
        k == Cardinality(E)
        n == rrHist.n
    IN  k > 0 =>
            /\ \A a \in E : rrHist.count[a] \in {n \div k, (n + k - 1) \div k}
            /\ \A a \in AgentIds \ E : rrHist.count[a] = 0
            /\ (k >= 2 => ~rrHist.repeated)

\* Five selections over an eligible list of two: one agent was selected three
\* times, the other twice.
C2_Witness ==
    /\ rrHist.n = 5
    /\ Cardinality(EligibleSet(RRQueue, now)) = 2
    /\ \E a \in EligibleSet(RRQueue, now) : rrHist.count[a] = 3
    /\ \E a \in EligibleSet(RRQueue, now) : rrHist.count[a] = 2

(***************************************************************************)
(* Spec: the router (ariService.js), the repository operations             *)
(* (queueService.js) and the media server, interleaved at every await      *)
(***************************************************************************)

MaxAdminOps == 1

MaxTicks == 1

\* The dialplan variables a channel may carry: both, an unknown queue, or one
\* of the two missing.
EntryVars ==
    {[cc |-> "CC", q |-> "Q1"], [cc |-> "CC", q |-> "Q2"], [cc |-> "CC", q |-> "QX"],
     [cc |-> "CC", q |-> ""], [cc |-> "", q |-> "Q1"]}

StoredAgent(st, status, queues) ==
    [name |-> "agent", endpoint |-> "PJSIP/agent", shiftTimings |-> st,
     status |-> status, loggedInQueues |-> queues]

\* The store when the router starts at instant t: agents "1" (around the
\* clock) and "2" (business-hours shift) are logged into Q1, agent "10" has
\* been added and is logged out, nobody serves Q2; no call waits and no
\* selection has been made.
InitAt(t) ==
    /\ agents = [a \in AgentIds |->
                   CASE a = A1 -> StoredAgent(Str247, "AVAILABLE", <<"Q1">>)
                     [] a = A2 -> StoredAgent(BizHours, "AVAILABLE", <<"Q1">>)
                     [] OTHER -> StoredAgent(Str247, "LOGGED_OUT", <<>>)]
    /\ agentsMaster = AgentIds
    /\ loggedIn = [q \in QueueIds |-> IF q = "Q1" THEN {A1, A2} ELSE {}]
    /\ rrPointer = [q \in QueueIds |-> NoVal]
    /\ calls = [q \in QueueIds |-> <<>>]
    /\ now = t
    /\ call = [c \in Channels |-> IdleCall]
    /\ admin = IdleAdmin
    /\ budget = [admin |-> MaxAdminOps, ticks |-> MaxTicks]
    /\ rrHist = NoHist
    /\ qHist = NoQHist
    /\ timing = NoEval

Init == InitAt(MonTen)

store == <<agents, agentsMaster, loggedIn, rrPointer, calls>>

\* new Date() answers a later instant.
Tick ==
    /\ budget.ticks > 0
    /\ now' = NextInstant(now)
    /\ budget' = [budget EXCEPT !.ticks = @ - 1]
    /\ UNCHANGED <<store, call, admin, rrHist, qHist, timing>>

\* addCallToQueue(queueId, record): append to the tail of the waiting list.
addCallToQueue(queueId, record) ==
    IF queueId \in QueueIds
    THEN [calls EXCEPT ![queueId] = Append(@, record)]
    ELSE calls

RECURSIVE WithoutChannel(_, _)
WithoutChannel(list, channelId) ==
    IF list = <<>> THEN <<>>
    ELSE IF Head(list).ariChannelId = channelId
         THEN WithoutChannel(Tail(list), channelId)
         ELSE <<Head(list)>> \o WithoutChannel(Tail(list), channelId)

RECURSIVE WithoutFirst(_, _)
WithoutFirst(list, channelId) ==
    IF list = <<>> THEN <<>>
    ELSE IF Head(list).ariChannelId = channelId THEN Tail(list)
         ELSE <<Head(list)>> \o WithoutFirst(Tail(list), channelId)

\* A removal that stops at the first record of the channel.
removeCallFromQueue_First(queueId, channelId) ==
    IF queueId \in QueueIds
    THEN [calls EXCEPT ![queueId] = WithoutFirst(@, channelId)]
    ELSE calls

\* removeCallFromQueue(queueId, channelId): remove every record of the
\* channel from the waiting list.
removeCallFromQueue(queueId, channelId) ==
    IF queueId \in QueueIds
    THEN [calls EXCEPT ![queueId] = WithoutChannel(@, channelId)]
    ELSE calls

\* A pop at the tail of the waiting list.
getNextCallFromQueue_Tail(queueId) ==
    IF queueId \in QueueIds /\ calls[queueId] # <<>>
    THEN [record |-> calls[queueId][Len(calls[queueId])],
          calls |-> [calls EXCEPT ![queueId] = SubSeq(@, 1, Len(@) - 1)]]
    ELSE [record |-> NoRecord, calls |-> calls]

\* getNextCallFromQueue(queueId): pop the head record; nothing when the list
\* is empty.
getNextCallFromQueue(queueId) ==
    IF queueId \in QueueIds /\ calls[queueId] # <<>>
    THEN [record |-> Head(calls[queueId]),
          calls |-> [calls EXCEPT ![queueId] = Tail(@)]]
    ELSE [record |-> NoRecord, calls |-> calls]

\* The waiting record built at lines 82, 108, 164 and 173.
WaitingRecord(c) ==
    [ariChannelId |-> c, callerNumber |-> CallerNumber(c), enqueueTime |-> now]

\* Lines 25-37, run once the channel is answered or was not ringing: hang up
\* when a routing variable is missing, else ask isQueueActive.
AfterAnswer(ch) ==
    IF ch.cc = "" \/ ch.q = ""
    THEN [ch EXCEPT !.ops = Append(@, "hangup"), !.pc = "done"]
    ELSE [ch EXCEPT !.pc = "active", !.date = now]

\* StasisStart of a caller channel (lines 8-23): a ringing channel is
\* answered first.
Enter(c) ==
    /\ call[c].pc = "idle"
    /\ \E st \in {"Ringing", "Up"}, v \in EntryVars :
         LET ch == [call[c] EXCEPT !.state = st, !.entry = st, !.cc = v.cc, !.q = v.q,
                                   !.live = TRUE]
         IN  call' = [call EXCEPT ![c] =
                        IF st = "Ringing"
                        THEN [ch EXCEPT !.ops = Append(@, "answer"), !.pc = "answer"]
                        ELSE AfterAnswer(ch)]
    /\ UNCHANGED <<store, now, admin, budget, rrHist, qHist, timing>>

\* channel.answer() resolves (line 14); the channel object may or may not
\* show the new state.
AnswerOk(c) ==
    /\ call[c].pc = "answer"
    /\ call[c].live
    /\ \E st \in {call[c].state, "Up"} :
         call' = [call EXCEPT ![c] = AfterAnswer([call[c] EXCEPT !.state = st])]
    /\ UNCHANGED <<store, now, admin, budget, rrHist, qHist, timing>>

\* channel.answer() rejects (lines 16-19).
AnswerErr(c) ==
    /\ call[c].pc = "answer"
    /\ call' = [call EXCEPT ![c] = [@ EXCEPT !.ops = Append(@, "hangup"), !.pc = "done"]]
    /\ UNCHANGED <<store, now, admin, budget, rrHist, qHist, timing>>

\* CheckActive without the return of line 56: the closed-queue branch falls
\* through to getQueueDetails.
CheckActive_NoReturn(c) ==
    /\ call[c].pc = "active"
    /\ LET queueActiveResult == isQueueActive(call[c].q, call[c].date)
       IN  call' = [call EXCEPT ![c] =
             [@ EXCEPT !.date = NoDate, !.pc = "details",
                       !.closed = queueActiveResult.success /\ ~queueActiveResult.isActive]]
    /\ UNCHANGED <<store, now, admin, budget, rrHist, qHist, timing>>

\* isQueueActive answers (lines 37-60).
CheckActive(c) ==
    /\ call[c].pc = "active"
    /\ LET queueActiveResult == isQueueActive(call[c].q, call[c].date)
           ch == [call[c] EXCEPT !.date = NoDate]
       IN  call' = [call EXCEPT ![c] =
             IF ~queueActiveResult.success \/ ~queueActiveResult.isActive
             THEN LET cl == [ch EXCEPT !.closed = queueActiveResult.success]
                  IN  IF cl.state # "Hangup"
                      THEN [cl EXCEPT !.ops = Append(@, "play:sound:ss-noservice"),
                                      !.pc = "play"]
                      ELSE [cl EXCEPT !.pc = "done"]
             ELSE [ch EXCEPT !.pc = "details"]]
    /\ UNCHANGED <<store, now, admin, budget, rrHist, qHist, timing>>

\* channel.play() resolves (lines 43-46).
PlayOk(c) ==
    /\ call[c].pc = "play"
    /\ call[c].live
    /\ call' = [call EXCEPT ![c] =
                  IF @.state # "Hangup"
                  THEN [@ EXCEPT !.ops = Append(@, "hangup"), !.pc = "closedHangup"]
                  ELSE [@ EXCEPT !.pc = "done"]]
    /\ UNCHANGED <<store, now, admin, budget, rrHist, qHist, timing>>

\* The catch block of lines 48-54.
PlayCatch(ch) ==
    IF ch.state # "Hangup"
    THEN [ch EXCEPT !.ops = Append(@, "hangup"), !.pc = "done"]
    ELSE [ch EXCEPT !.pc = "done"]

\* channel.play() rejects.
PlayErr(c) ==
    /\ call[c].pc = "play"
    /\ call' = [call EXCEPT ![c] = PlayCatch(@)]
    /\ UNCHANGED <<store, now, admin, budget, rrHist, qHist, timing>>

\* The awaited channel.hangup() of line 45 resolves, or rejects into the
\* catch block.
ClosedHangupDone(c) ==
    /\ call[c].pc = "closedHangup"
    /\ \E ok \in BOOLEAN :
         call' = [call EXCEPT ![c] = IF ok THEN [@ EXCEPT !.pc = "done"] ELSE PlayCatch(@)]
    /\ UNCHANGED <<store, now, admin, budget, rrHist, qHist, timing>>

\* StasisEnd without the removal of line 197.
StasisEnd_NoRemove(c) ==
    /\ call[c].pc # "idle"
    /\ call[c].live
    /\ \E st \in {call[c].state, "Hangup"} :
         call' = [call EXCEPT ![c] = [@ EXCEPT !.live = FALSE, !.ended = TRUE, !.state = st]]
    /\ UNCHANGED <<store, now, admin, budget, rrHist, qHist, timing>>

\* StasisEnd of a caller channel (lines 183-201): the channel has left the
\* application; its waiting records are removed when both variables are set.
StasisEnd(c) ==
    /\ call[c].pc # "idle"
    /\ call[c].live
    /\ \E st \in {call[c].state, "Hangup"} :
         call' = [call EXCEPT ![c] = [@ EXCEPT !.live = FALSE, !.ended = TRUE, !.state = st]]
    /\ calls' = IF call[c].cc # "" /\ call[c].q # ""
                THEN removeCallFromQueue(call[c].q, c)
                ELSE calls
    /\ UNCHANGED <<agents, agentsMaster, loggedIn, rrPointer, now, admin, budget, rrHist, qHist, timing>>

\* The else branch of line 171, entered when the selector gave no agent:
\* addCallToQueue is called with a fresh waiting record.
NoAgentBranch(ch, c) == [ch EXCEPT !.pc = "enqueue", !.rec = WaitingRecord(c)]

\* getQueueDetails answers (lines 60-72): a ROUND_ROBIN queue starts the
\* selector, whose first request is smembers (line 285).
GetQueue(c) ==
    /\ call[c].pc = "details"
    /\ LET queueDetailsResult == getQueueDetails(call[c].q)
       IN  call' = [call EXCEPT ![c] =
             IF ~queueDetailsResult.success
             THEN [@ EXCEPT !.ops = Append(@, "hangup"), !.pc = "done"]
             ELSE IF queueDetailsResult.data.strategy = "ROUND_ROBIN"
                  THEN [@ EXCEPT !.pc = "smembers", !.nSel = @ + 1]
                  ELSE [@ EXCEPT !.ops = Append(@, "hangup"), !.pc = "done"]]
    /\ UNCHANGED <<store, now, admin, budget, rrHist, qHist, timing>>

\* smembers answers (lines 285-293): nobody logged in gives data null, else
\* the loop over loggedInAgents starts with currentTime = new Date().
SelMembers(c) ==
    /\ call[c].pc = "smembers"
    /\ LET loggedInAgents == loggedIn[call[c].q]
       IN  call' = [call EXCEPT ![c] =
             IF loggedInAgents = {}
             THEN NoAgentBranch(@, c)
             ELSE [@ EXCEPT !.pc = "filter", !.todo = loggedInAgents, !.avail = {},
                            !.date = now]]
    /\ UNCHANGED <<store, now, admin, budget, rrHist, qHist, timing>>

\* After the loop (lines 308-315): data null for an empty list, else the list
\* is sorted and the pointer is requested.
AfterFilter(ch, c) ==
    IF ch.todo # {} THEN ch
    ELSE IF ch.avail = {} THEN NoAgentBranch([ch EXCEPT !.date = NoDate], c)
    ELSE [ch EXCEPT !.pc = "getptr"]

\* One turn of the loop of lines 295-306: the details and the shift of the
\* next logged-in agent are read; smembers fixes no order.
SelFilter(c) ==
    /\ call[c].pc = "filter"
    /\ \E agentId \in call[c].todo :
         call' = [call EXCEPT ![c] =
           AfterFilter([@ EXCEPT !.todo = @ \ {agentId},
                                 !.avail = IF TrulyAvailable(agentId, call[c].date)
                                           THEN @ \cup {agentId} ELSE @], c)]
    /\ UNCHANGED <<store, now, admin, budget, rrHist, qHist, timing>>

\* get lastAgentRR answers (lines 315-326): the agent is picked and the
\* pointer write requested.
SelGetPointer(c) ==
    /\ call[c].pc = "getptr"
    /\ LET lastAgentId == rrPointer[call[c].q]
           selectedAgentId == RoundRobinPick(SortAgents(call[c].avail), lastAgentId)
       IN  call' = [call EXCEPT ![c] =
                      [@ EXCEPT !.pc = "setptr", !.agent = selectedAgentId, !.avail = {}]]
    /\ UNCHANGED <<store, now, admin, budget, rrHist, qHist, timing>>

\* set lastAgentRR answers (lines 326-328) and the selector returns the agent;
\* the router asks for the agent's details (lines 74-78).
SelSetPointer(c) ==
    /\ call[c].pc = "setptr"
    /\ rrPointer' = [rrPointer EXCEPT ![call[c].q] = call[c].agent]
    /\ call' = [call EXCEPT ![c] = [@ EXCEPT !.pc = "agentDetails", !.date = NoDate]]
    /\ UNCHANGED <<agents, agentsMaster, loggedIn, calls, now, admin, budget, rrHist, qHist, timing>>

\* The router hanging up the caller when the selector reports a failure.
SelStoreErr_Hangup(c) ==
    /\ call[c].pc \in {"smembers", "getptr", "setptr"}
    /\ call' = [call EXCEPT ![c] =
                  [@ EXCEPT !.ops = Append(@, "hangup"), !.pc = "done", !.date = NoDate,
                            !.todo = {}, !.avail = {}, !.agent = NoVal, !.selFailed = TRUE]]
    /\ UNCHANGED <<store, now, admin, budget, rrHist, qHist, timing>>

\* smembers (line 285), get (line 315) or set (line 326) rejects: the catch
\* block of lines 334-337 returns success false with no agent, nothing is
\* written, and the router takes the else branch of line 171.
SelStoreErr(c) ==
    /\ call[c].pc \in {"smembers", "getptr", "setptr"}
    /\ call' = [call EXCEPT ![c] =
                  NoAgentBranch([@ EXCEPT !.date = NoDate, !.todo = {}, !.avail = {},
                                          !.agent = NoVal, !.selFailed = TRUE], c)]
    /\ UNCHANGED <<store, now, admin, budget, rrHist, qHist, timing>>

\* getAgentDetails answers (lines 78-101): without an endpoint, or when the
\* store read fails, the call is re-queued; else the origination is requested.
\* No agent status is written before the request (lines 90-91 are comments).
RouteAgentDetails(c) ==
    /\ call[c].pc = "agentDetails"
    /\ \E storeOk \in BOOLEAN :
         LET agentDetailsResult ==
                 IF storeOk THEN getAgentDetails(call[c].agent)
                 ELSE [success |-> FALSE, data |-> EmptyAgentHash]
         IN  call' = [call EXCEPT ![c] =
               IF ~agentDetailsResult.success \/ agentDetailsResult.data.endpoint = ""
               THEN [@ EXCEPT !.pc = "requeueNoEndpoint", !.rec = WaitingRecord(c)]
               ELSE [@ EXCEPT !.ops = Append(@, "originate"), !.pc = "originating"]]
    /\ UNCHANGED <<store, now, admin, budget, rrHist, qHist, timing>>

\* The re-queue of lines 82-84 with the return left out: the handler goes on
\* to originate.
RequeueNoEndpoint_NoReturn(c) ==
    /\ call[c].pc = "requeueNoEndpoint"
    /\ calls' = addCallToQueue(call[c].q, call[c].rec)
    /\ call' = [call EXCEPT ![c] =
                  [@ EXCEPT !.ops = @ \o <<"startMoh", "originate">>, !.pc = "originating",
                            !.rec = NoRecord]]
    /\ UNCHANGED <<agents, agentsMaster, loggedIn, rrPointer, now, admin, budget, rrHist, qHist, timing>>

\* addCallToQueue of line 82 answers; on-hold media is started and the
\* handler returns (lines 83-84).
RequeueNoEndpoint(c) ==
    /\ call[c].pc = "requeueNoEndpoint"
    /\ calls' = addCallToQueue(call[c].q, call[c].rec)
    /\ call' = [call EXCEPT ![c] =
                  [@ EXCEPT !.ops = Append(@, "startMoh"), !.pc = "queued", !.rec = NoRecord]]
    /\ UNCHANGED <<agents, agentsMaster, loggedIn, rrPointer, now, admin, budget, rrHist, qHist, timing>>

\* The no-agent branch without line 174: the record is written and no
\* on-hold media is started.
EnqueueNoAgent_NoMoh(c) ==
    /\ call[c].pc = "enqueue"
    /\ calls' = addCallToQueue(call[c].q, call[c].rec)
    /\ call' = [call EXCEPT ![c] = [@ EXCEPT !.pc = "queued", !.rec = NoRecord]]
    /\ UNCHANGED <<agents, agentsMaster, loggedIn, rrPointer, now, admin, budget, rrHist, qHist, timing>>

\* addCallToQueue of line 173 answers; on-hold media is started (line 174).
EnqueueNoAgent(c) ==
    /\ call[c].pc = "enqueue"
    /\ calls' = addCallToQueue(call[c].q, call[c].rec)
    /\ call' = [call EXCEPT ![c] =
                  [@ EXCEPT !.ops = Append(@, "startMoh"), !.pc = "queued", !.rec = NoRecord]]
    /\ UNCHANGED <<agents, agentsMaster, loggedIn, rrPointer, now, admin, budget, rrHist, qHist, timing>>

\* The originate callback with an error (lines 102-112): the call goes back
\* to the queue; no agent status is written.
OriginateErr(c) ==
    /\ call[c].pc = "originating"
    /\ call' = [call EXCEPT ![c] = [@ EXCEPT !.pc = "requeueOriginate", !.rec = WaitingRecord(c)]]
    /\ UNCHANGED <<store, now, admin, budget, rrHist, qHist, timing>>

\* The origination-error callback writing the record at the head of the
\* list instead of its tail.
RequeueOriginate_AtHead(c) ==
    /\ call[c].pc = "requeueOriginate"
    /\ calls' = [calls EXCEPT ![call[c].q] = <<call[c].rec>> \o @]
    /\ call' = [call EXCEPT ![c] =
                  [@ EXCEPT !.ops = Append(@, "startMoh"), !.pc = "queued", !.rec = NoRecord]]
    /\ UNCHANGED <<agents, agentsMaster, loggedIn, rrPointer, now, admin, budget, rrHist, qHist, timing>>

\* addCallToQueue of line 108 answers, then on-hold media is started (109).
RequeueOriginate(c) ==
    /\ call[c].pc = "requeueOriginate"
    /\ calls' = addCallToQueue(call[c].q, call[c].rec)
    /\ call' = [call EXCEPT ![c] =
                  [@ EXCEPT !.ops = Append(@, "startMoh"), !.pc = "queued", !.rec = NoRecord]]
    /\ UNCHANGED <<agents, agentsMaster, loggedIn, rrPointer, now, admin, budget, rrHist, qHist, timing>>

\* The originate callback without an error (lines 113-168): the agent channel
\* exists and its StasisStart and ChannelDestroyed handlers are registered.
OriginateOk(c) ==
    /\ call[c].pc = "originating"
    /\ call' = [call EXCEPT ![c] = [@ EXCEPT !.pc = "dialing", !.leg = "dialing"]]
    /\ UNCHANGED <<store, now, admin, budget, rrHist, qHist, timing>>

\* The agent channel enters the application, in state Up: an originated
\* channel is handed to the application once its endpoint has answered. The
\* handler registered on the channel answers it (lines 115-117). The
\* StasisStart handler of line 8 is called for it as well: the channel is not
\* ringing (line 21) and, the originate of lines 95-100 having set no
\* CALL_CENTER_ID and no QUEUE_ID, it is hung up (lines 29-32).
AgentStasisStart(c) ==
    /\ call[c].pc = "dialing"
    /\ call[c].leg = "dialing"
    /\ call' = [call EXCEPT ![c] = [@ EXCEPT !.pc = "agentAnswer", !.leg = "inApp",
                                             !.legOps = Append(@, "hangup"),
                                             !.legPc = "hungup"]]
    /\ UNCHANGED <<store, now, admin, budget, rrHist, qHist, timing>>

\* agentStasisChannel.answer fails (lines 118-124): the caller is hung up.
AgentAnswerErr(c) ==
    /\ call[c].pc = "agentAnswer"
    /\ call' = [call EXCEPT ![c] = [@ EXCEPT !.ops = Append(@, "hangup"), !.pc = "done"]]
    /\ UNCHANGED <<store, now, admin, budget, rrHist, qHist, timing>>

\* agentStasisChannel.answer succeeds (lines 125-127): a bridge is requested.
AgentAnswerOk(c) ==
    /\ call[c].pc = "agentAnswer"
    /\ call[c].leg = "inApp"
    /\ call' = [call EXCEPT ![c] = [@ EXCEPT !.pc = "bridgeCreate"]]
    /\ UNCHANGED <<store, now, admin, budget, rrHist, qHist, timing>>

\* bridge.create fails (lines 128-135): both legs are hung up.
BridgeCreateErr(c) ==
    /\ call[c].pc = "bridgeCreate"
    /\ call' = [call EXCEPT ![c] = [@ EXCEPT !.ops = Append(@, "hangup"),
                                             !.legOps = Append(@, "hangup"),
                                             !.bridge = "createFailed",
                                             !.pc = "done"]]
    /\ UNCHANGED <<store, now, admin, budget, rrHist, qHist, timing>>

\* bridge.create succeeds (lines 136-138): addChannel is requested.
BridgeCreateOk(c) ==
    /\ call[c].pc = "bridgeCreate"
    /\ call' = [call EXCEPT ![c] = [@ EXCEPT !.pc = "addChannel", !.bridge = "created"]]
    /\ UNCHANGED <<store, now, admin, budget, rrHist, qHist, timing>>

\* addChannel succeeds (lines 138-141): caller and agent are bridged; no agent
\* status is written.
AddChannelOk(c) ==
    /\ call[c].pc = "addChannel"
    /\ call[c].live
    /\ call[c].leg = "inApp"
    /\ call' = [call EXCEPT ![c] = [@ EXCEPT !.pc = "bridged", !.bridged = TRUE]]
    /\ UNCHANGED <<store, now, admin, budget, rrHist, qHist, timing>>

\* addChannel fails (lines 142-149): both legs are hung up, the bridge is
\* destroyed.
AddChannelErr(c) ==
    /\ call[c].pc = "addChannel"
    /\ call' = [call EXCEPT ![c] = [@ EXCEPT !.ops = Append(@, "hangup"),
                                             !.legOps = Append(@, "hangup"),
                                             !.bridge = "destroyed",
                                             !.pc = "done"]]
    /\ UNCHANGED <<store, now, admin, budget, rrHist, qHist, timing>>

\* ChannelDestroyed of the agent channel (lines 154-168), handled once: when
\* the caller's channel object is in state Up the caller is re-queued.
AgentChannelDestroyed(c) ==
    /\ call[c].leg \in {"dialing", "inApp"}
    /\ call' = [call EXCEPT ![c] =
                  IF @.state = "Up"
                  THEN [@ EXCEPT !.leg = "destroyed", !.dpc = "requeue",
                                 !.rec = WaitingRecord(c)]
                  ELSE [@ EXCEPT !.leg = "destroyed"]]
    /\ UNCHANGED <<store, now, admin, budget, rrHist, qHist, timing>>

\* addCallToQueue of line 164 answers, then on-hold media is started (165).
RequeueDestroyed(c) ==
    /\ call[c].dpc = "requeue"
    /\ calls' = addCallToQueue(call[c].q, call[c].rec)
    /\ call' = [call EXCEPT ![c] =
                  [@ EXCEPT !.ops = Append(@, "startMoh"), !.dpc = "done", !.rec = NoRecord]]
    /\ UNCHANGED <<agents, agentsMaster, loggedIn, rrPointer, now, admin, budget, rrHist, qHist, timing>>

(***************************************************************************)
(* queueService.js: addAgent, agentLogin, agentLogout, one store request   *)
(* per step                                                                *)
(***************************************************************************)

LoginQueueIds == {<<"Q1">>, <<"Q2">>, <<"Q1", "Q2">>}

\* The operation op returns: success true or false.
Returned(op, success) ==
    [IdleAdmin EXCEPT !.agentId = op.agentId, !.before = op.before, !.last = op.op,
                      !.ret = IF success THEN "ok" ELSE "fail"]

\* The operation name called for agentId starts.
Called(name, agentId) ==
    [IdleAdmin EXCEPT !.op = name, !.agentId = agentId,
                      !.before = [agent |-> agents[agentId], loggedIn |-> loggedIn]]

\* agentLogin up to its first write (lines 152-178): the agent must exist and
\* be LOGGED_OUT; without forceLogin the shift is checked next.
AgentLoginRead(agentId, queueIds, forceLogin) ==
    /\ admin.op = "none"
    /\ budget.admin > 0
    /\ budget' = [budget EXCEPT !.admin = @ - 1]
    /\ LET agentDetailsResult == getAgentDetails(agentId)
           op == [Called("login", agentId) EXCEPT !.queueIds = queueIds]
       IN  admin' =
             IF ~agentDetailsResult.success THEN Returned(op, FALSE)
             ELSE IF agentDetailsResult.data.status # "LOGGED_OUT" THEN Returned(op, FALSE)
             ELSE IF ~forceLogin THEN [op EXCEPT !.pc = "shift", !.date = now]
             ELSE [op EXCEPT !.pc = "hmset"]
    /\ UNCHANGED <<store, now, call, rrHist, qHist, timing>>

\* isAgentOnShift answers (lines 169-174).
AgentLoginShift ==
    /\ admin.op = "login" /\ admin.pc = "shift"
    /\ LET shiftCheckResult == isAgentOnShift(admin.agentId, admin.date)
       IN  admin' =
             IF ~shiftCheckResult.success \/ ~shiftCheckResult.isOnShift
             THEN Returned(admin, FALSE)
             ELSE [admin EXCEPT !.pc = "hmset", !.date = NoDate]
    /\ UNCHANGED <<store, now, call, budget, rrHist, qHist, timing>>

\* hmset of status and loggedInQueues (lines 180-183).
AgentLoginHmset ==
    /\ admin.op = "login" /\ admin.pc = "hmset"
    /\ agents' = [agents EXCEPT ![admin.agentId] =
                    [@ EXCEPT !.status = "AVAILABLE", !.loggedInQueues = admin.queueIds]]
    /\ admin' = IF admin.queueIds = <<>> THEN Returned(admin, TRUE)
                ELSE [admin EXCEPT !.pc = "sadd", !.i = 1]
    /\ UNCHANGED <<agentsMaster, loggedIn, rrPointer, calls, now, call, budget, rrHist, qHist, timing>>

\* One sadd of the loop of lines 185-188.
AgentLoginSadd ==
    /\ admin.op = "login" /\ admin.pc = "sadd"
    /\ loggedIn' = [loggedIn EXCEPT ![admin.queueIds[admin.i]] = @ \cup {admin.agentId}]
    /\ admin' = IF admin.i = Len(admin.queueIds) THEN Returned(admin, TRUE)
                ELSE [admin EXCEPT !.i = @ + 1]
    /\ UNCHANGED <<agents, agentsMaster, rrPointer, calls, now, call, budget, rrHist, qHist, timing>>

\* The hmset or a sadd of agentLogin rejects: the catch block of lines
\* 192-195 returns a failure; what was written before stays written.
AgentLoginStoreErr ==
    /\ admin.op = "login" /\ admin.pc \in {"hmset", "sadd"}
    /\ admin' = Returned(admin, FALSE)
    /\ UNCHANGED <<store, now, call, budget, rrHist, qHist, timing>>

\* agentLogout up to its first write (lines 204-220): the agent must exist and
\* not be LOGGED_OUT; the queues to leave are those of the hash just read.
AgentLogoutRead(agentId) ==
    /\ admin.op = "none"
    /\ budget.admin > 0
    /\ budget' = [budget EXCEPT !.admin = @ - 1]
    /\ LET agentDetails == agents[agentId]
           op == [Called("logout", agentId) EXCEPT !.queueIds = agentDetails.loggedInQueues]
       IN  admin' =
             IF agentDetails = EmptyAgentHash THEN Returned(op, FALSE)
             ELSE IF agentDetails.status = "LOGGED_OUT" THEN Returned(op, FALSE)
             ELSE IF agentDetails.loggedInQueues = <<>> THEN [op EXCEPT !.pc = "hmset"]
             ELSE [op EXCEPT !.pc = "srem", !.i = 1]
    /\ UNCHANGED <<store, now, call, rrHist, qHist, timing>>

\* One srem of the loop of lines 222-225.
AgentLogoutSrem ==
    /\ admin.op = "logout" /\ admin.pc = "srem"
    /\ loggedIn' = [loggedIn EXCEPT ![admin.queueIds[admin.i]] = @ \ {admin.agentId}]
    /\ admin' = IF admin.i = Len(admin.queueIds) THEN [admin EXCEPT !.pc = "hmset", !.i = 0]
                ELSE [admin EXCEPT !.i = @ + 1]
    /\ UNCHANGED <<agents, agentsMaster, rrPointer, calls, now, call, budget, rrHist, qHist, timing>>

\* hmset of status LOGGED_OUT and loggedInQueues [] (lines 227-230).
AgentLogoutHmset ==
    /\ admin.op = "logout" /\ admin.pc = "hmset"
    /\ agents' = [agents EXCEPT ![admin.agentId] =
                    [@ EXCEPT !.status = "LOGGED_OUT", !.loggedInQueues = <<>>]]
    /\ admin' = Returned(admin, TRUE)
    /\ UNCHANGED <<agentsMaster, loggedIn, rrPointer, calls, now, call, budget, rrHist, qHist, timing>>

\* addAgent, its hmset (lines 85-101): the whole hash is written, status
\* LOGGED_OUT and loggedInQueues [], whether or not the agent exists already.
AddAgentHmset(agentId, shiftTimings) ==
    /\ admin.op = "none"
    /\ budget.admin > 0
    /\ budget' = [budget EXCEPT !.admin = @ - 1]
    /\ agents' = [agents EXCEPT ![agentId] = StoredAgent(shiftTimings, "LOGGED_OUT", <<>>)]
    /\ admin' = [Called("addAgent", agentId) EXCEPT !.pc = "sadd"]
    /\ UNCHANGED <<agentsMaster, loggedIn, rrPointer, calls, now, call, rrHist, qHist, timing>>

\* addAgent, its sadd to the master set (line 102).
AddAgentSadd ==
    /\ admin.op = "addAgent" /\ admin.pc = "sadd"
    /\ agentsMaster' = agentsMaster \cup {admin.agentId}
    /\ admin' = Returned(admin, TRUE)
    /\ UNCHANGED <<agents, loggedIn, rrPointer, calls, now, call, budget, rrHist, qHist, timing>>

(***************************************************************************)
(* The specification                                                       *)
(***************************************************************************)

CallerStep(c) ==
    \/ Enter(c) \/ AnswerOk(c) \/ AnswerErr(c) \/ CheckActive(c)
    \/ PlayOk(c) \/ PlayErr(c) \/ ClosedHangupDone(c) \/ StasisEnd(c)
    \/ GetQueue(c) \/ SelMembers(c) \/ SelFilter(c) \/ SelGetPointer(c)
    \/ SelSetPointer(c) \/ SelStoreErr(c) \/ RouteAgentDetails(c) \/ RequeueNoEndpoint(c)
    \/ EnqueueNoAgent(c) \/ OriginateErr(c) \/ RequeueOriginate(c)
    \/ OriginateOk(c) \/ AgentStasisStart(c) \/ AgentAnswerErr(c)
    \/ AgentAnswerOk(c) \/ BridgeCreateErr(c) \/ BridgeCreateOk(c)
    \/ AddChannelOk(c) \/ AddChannelErr(c) \/ AgentChannelDestroyed(c)
    \/ RequeueDestroyed(c)

AdminStep ==
    \/ \E a \in AgentIds, qs \in LoginQueueIds, f \in BOOLEAN : AgentLoginRead(a, qs, f)
    \/ AgentLoginShift \/ AgentLoginHmset \/ AgentLoginSadd \/ AgentLoginStoreErr
    \/ \E a \in AgentIds : AgentLogoutRead(a)
    \/ AgentLogoutSrem \/ AgentLogoutHmset
    \/ \E a \in AgentIds, st \in TimingStrings : AddAgentHmset(a, st)
    \/ AddAgentSadd

\* Spec: one caller channel, the repository operations and the clock.
Next == CallerStep("c1") \/ AdminStep \/ Tick

Spec == Init /\ [][Next]_vars

\* SpecPair: two caller channels whose handlers overlap, over a store that
\* no repository operation changes, started on a weekday morning or on a
\* Saturday afternoon.
InitPair == \E t \in Instants : InitAt(t)

NextPair == \E c \in Channels : CallerStep(c)

SpecPair == InitPair /\ [][NextPair]_vars

(***************************************************************************)
(* Claims on the router and the repository                                 *)
(***************************************************************************)

Range(f) == {f[i] : i \in DOMAIN f}

\* The number of waiting records of channel c over all queues.
RecordCount(c) ==
    LET n(q) == Cardinality({i \in 1..Len(calls[q]) : calls[q][i].ariChannelId = c})
    IN  n("Q1") + n("Q2")

\* C3: the agent the selector returns for queue q is, when it is returned,
\* AVAILABLE, on shift (at the instant the selection sampled) and logged into
\* q according to its loggedInQueues.
C3_ReturnedAgentEligible ==
    [][\A c \in Channels :
          (call[c].pc = "setptr" /\ call'[c].pc = "agentDetails") =>
              LET a == call'[c].agent
              IN  /\ agents'[a].status = "AVAILABLE"
                  /\ parseTimings(agents'[a].shiftTimings, call[c].date)
                  /\ call[c].q \in Range(agents'[a].loggedInQueues)]_vars

\* Channel c has an origination in progress to, or a bridge established
\* with, its selected agent.
Serving(c) ==
    \/ call[c].pc = "originating"
    \/ /\ call[c].pc \in {"dialing", "agentAnswer", "bridgeCreate", "addChannel"}
       /\ call[c].leg \in {"dialing", "inApp"}
    \/ call[c].pc = "bridged" /\ call[c].leg = "inApp" /\ call[c].live

\* C4: no agent is the target of an origination in progress or of an
\* established bridge for two caller channels at once.
C4_OneCallPerAgent ==
    \A c \in Channels, d \in Channels :
        (c # d /\ Serving(c) /\ Serving(d)) => call[c].agent # call[d].agent

\* C5: at the step that requests the origination the selected agent's status
\* is RINGING.
C5_RingingBeforeOriginate ==
    [][\A c \in Channels :
          (call[c].pc = "agentDetails" /\ call'[c].pc = "originating") =>
              agents'[call[c].agent].status = "RINGING"]_vars

\* C6: an agent whose status is LOGGED_OUT has no loggedInQueues and is in no
\* queue's logged-in set.
C6_LoggedOutNowhere ==
    \A a \in AgentIds :
        agents[a].status = "LOGGED_OUT" =>
            /\ agents[a].loggedInQueues = <<>>
            /\ \A q \in QueueIds : a \notin loggedIn[q]

\* C7: in every store state an agent that is AVAILABLE, RINGING, ON_CALL or
\* WRAPPING_UP is in the logged-in set of exactly the queues of its
\* loggedInQueues.
C7_MembershipMatches ==
    \A a \in AgentIds :
        agents[a].status \in {"AVAILABLE", "RINGING", "ON_CALL", "WRAPPING_UP"} =>
            \A q \in QueueIds : a \in loggedIn[q] <=> q \in Range(agents[a].loggedInQueues)

\* C8: over all queues there is at most one waiting record per caller channel.
C8_OneRecordPerChannel == \A c \in Channels : RecordCount(c) <= 1

\* Both callers wait: one was re-queued after its agent channel was
\* destroyed, the other after a failed origination or for want of an agent.
C8_Witness ==
    /\ \A c \in Channels : RecordCount(c) = 1
    /\ \E c \in Channels : call[c].dpc = "done"
    /\ \E c \in Channels : call[c].pc = "queued"

\* C9: a caller channel that has been bridged has no waiting record.
C9_BridgedNotQueued == \A c \in Channels : call[c].bridged => RecordCount(c) = 0

\* The requests the closed-queue branch may have issued on a channel that
\* entered in state entry: the answer of a ringing channel, the prompt, the
\* hangup (a second one when the awaited hangup failed).
ClosedOps(entry) ==
    LET pre == IF entry = "Ringing" THEN <<"answer">> ELSE <<>>
        play == pre \o <<"play:sound:ss-noservice">>
    IN  [issued |-> {pre, play, play \o <<"hangup">>, play \o <<"hangup", "hangup">>},
         complete |-> {play \o <<"hangup">>, play \o <<"hangup", "hangup">>}]

C10_State ==
    \A c \in Channels :
        call[c].closed =>
            /\ call[c].ops \in ClosedOps(call[c].entry).issued
            /\ (call[c].pc = "done" /\ call[c].state # "Hangup")
                   => call[c].ops \in ClosedOps(call[c].entry).complete
            /\ call[c].nSel = 0
            /\ RecordCount(c) = 0

C10_Step ==
    \A c \in Channels :
        (call'[c].closed /\ call'[c] # call[c]) =>
            UNCHANGED <<agents, agentsMaster, loggedIn, rrPointer, calls>>

\* C10 (amended): when isQueueActive finds an existing queue closed, the
\* router, having answered the channel first only if it entered ringing,
\* requests the no-service prompt and then the hangup, unless the channel
\* object is in state Hangup by then; it writes no waiting record, does not
\* run the selector, and its steps leave the store unchanged.
C10_ClosedQueueDeflect == []C10_State /\ [][C10_Step]_vars

\* A ringing caller of a closed queue was answered, played the prompt and
\* hung up.
C10_Witness ==
    \E c \in Channels :
        /\ call[c].closed /\ call[c].pc = "done"
        /\ call[c].ops = <<"answer", "play:sound:ss-noservice", "hangup">>

\* C10 as stated: every caller of a closed queue whose channel object has
\* not reached state Hangup is answered, then played the prompt, then hung up
\* (the hangup may be requested again when the first request failed).
C10_AnswerPlayHangup ==
    \A c \in Channels :
        (call[c].closed /\ call[c].pc = "done" /\ call[c].state # "Hangup") =>
            /\ call[c].ops \in ClosedOps("Ringing").complete
            /\ call[c].nSel = 0
            /\ RecordCount(c) = 0

\* Sequence after is sequence before with one record of channel c at its
\* tail.
AppendedFor(before, after, c) ==
    /\ Len(after) = Len(before) + 1
    /\ SubSeq(after, 1, Len(before)) = before
    /\ after[Len(after)].ariChannelId = c
    /\ after[Len(after)].callerNumber = CallerNumber(c)

\* The step of channel c that leaves position pc writes one record of c at
\* the tail of c's queue, leaves the other queues alone and starts on-hold
\* media.
EnqueuesAtTail(c, pc) ==
    (call[c].pc = pc /\ call'[c].pc # pc) =>
        /\ AppendedFor(calls[call[c].q], calls'[call[c].q], c)
        /\ \A q \in QueueIds \ {call[c].q} : calls'[q] = calls[q]
        /\ call'[c].ops = Append(call[c].ops, "startMoh")
        /\ call'[c].pc = "queued"

C11_Step ==
    \A c \in Channels :
        /\ EnqueuesAtTail(c, "enqueue")
        /\ (call[c].pc = "enqueue" /\ call'[c] # call[c]) => agents' = agents

C11_State ==
    \A c \in Channels :
        (call[c].pc \in {"enqueue", "queued"} /\ call[c].agent = NoVal) =>
            /\ "originate" \notin Range(call[c].ops)
            /\ call[c].leg = "none"
            /\ (call[c].pc = "queued" /\ call[c].live) => RecordCount(c) = 1

\* C11: when the selector returns NONE for a caller of an active ROUND_ROBIN
\* queue, one record of the caller's channel is appended at the tail of that
\* queue, on-hold media is started, no origination is requested and no
\* agent's status changes.
C11_NoAgentEnqueue == []C11_State /\ [][C11_Step]_vars

\* Both callers found no agent for Q2 and wait there, in the order their
\* records were written.
C11_Witness ==
    /\ \A c \in Channels : call[c].pc = "queued" /\ call[c].agent = NoVal /\ call[c].live
    /\ Len(calls["Q2"]) = 2
    /\ calls["Q2"][2].ariChannelId = "c1"

C12_Step ==
    \A c \in Channels :
        /\ EnqueuesAtTail(c, "requeueOriginate")
        /\ (call[c].pc \in {"originating", "requeueOriginate"} /\ call'[c] # call[c]) =>
               /\ agents' = agents /\ rrPointer' = rrPointer
               /\ call'[c].pc = "queued" =>
                      /\ agents'[call[c].agent].status = "AVAILABLE"
                      /\ (\A d \in Channels \ {c} : call[d].nSel = 0)
                             => rrPointer'[call[c].q] = call[c].agent

C13_BridgedAgentOnCall ==
    [][\A c \in Channels :
          (call[c].pc = "addChannel" /\ call'[c].bridged) =>
              /\ call'[c].pc = "bridged"
              /\ agents'[call[c].agent].status = "ON_CALL"]_vars

\* The first leg of the bridged call of caller c leaves in this step: the
\* caller leaves the application or the agent channel is destroyed.
BridgedCallEnds(c) ==
    /\ call[c].bridged /\ call[c].live /\ call[c].leg = "inApp"
    /\ ~call'[c].live \/ call'[c].leg = "destroyed"

\* C14: when a leg of a bridged call leaves the application or is destroyed,
\* the agent goes from ON_CALL to WRAPPING_UP or AVAILABLE.
C14_AgentReleased ==
    [][\A c \in Channels :
          BridgedCallEnds(c) =>
              /\ agents[call[c].agent].status = "ON_CALL"
              /\ agents'[call[c].agent].status \in {"WRAPPING_UP", "AVAILABLE"}]_vars

\* The steps the router takes for caller c once the selector has returned:
\* the store answers and the media-server callbacks of lines 78-168.
DispatchStep(c) ==
    \/ RequeueNoEndpoint(c) \/ EnqueueNoAgent(c) \/ OriginateErr(c)
    \/ RequeueOriginate(c) \/ OriginateOk(c) \/ AgentStasisStart(c)
    \/ AgentAnswerErr(c) \/ AgentAnswerOk(c) \/ BridgeCreateErr(c)
    \/ BridgeCreateOk(c) \/ AddChannelOk(c) \/ AddChannelErr(c)
    \/ RequeueDestroyed(c)

\* SpecLive: Spec in which a repository operation that was started runs to
\* its end and every store answer and callback a routed call is waiting for
\* arrives; the caller is free to stay on the line and the clock to stand
\* still.
SpecLive == Spec /\ WF_vars(AdminStep) /\ WF_vars(DispatchStep("c1"))

\* Caller c waits in its queue and an agent logged into that queue is
\* AVAILABLE and on shift.
WaitsWithAgent(c) ==
    /\ call[c].pc = "queued" /\ call[c].live /\ RecordCount(c) = 1
    /\ \E a \in loggedIn[call[c].q] : TrulyAvailable(a, now)

\* The record of caller c has left the queue and an origination is the last
\* request made for the call.
Dispatched(c) ==
    /\ RecordCount(c) = 0
    /\ call[c].ops # <<>> /\ call[c].ops[Len(call[c].ops)] = "originate"

\* C15: a call that waits while an agent serving its queue is AVAILABLE and
\* on shift is eventually popped and an origination to that agent started,
\* unless the caller leaves first.
C15_WaitingCallDispatched ==
    \A c \in Channels : WaitsWithAgent(c) ~> (Dispatched(c) \/ ~call[c].live)

\* removedCount of removeCallFromQueue(queueId, channelId): the number of
\* records it removes.
removedCount(queueId, channelId) ==
    IF queueId \in QueueIds
    THEN Len(calls[queueId]) - Len(removeCallFromQueue(queueId, channelId)[queueId])
    ELSE 0

\* The records of list that are not of channel c, in their order.
RecordsOfOthers(list, c) ==
    LET other(r) == r.ariChannelId # c
    IN  SelectSeq(list, other)

C16_Step ==
    \A c \in Channels :
        (call[c].live /\ ~call'[c].live /\ RecordCount(c) = 1) =>
            LET q == call[c].q
            IN  /\ removedCount(q, c) = 1
                /\ Len(calls'[q]) = Len(calls[q]) - 1
                /\ calls'[q] = RecordsOfOthers(calls[q], c)
                /\ \A p \in QueueIds \ {q} : calls'[p] = calls[p]
                /\ UNCHANGED <<agents, agentsMaster, loggedIn, rrPointer>>

MaxEnqueues == 3

MaxQueueOps == 5

QueueOpsLeft == budget.ticks > 0 /\ budget' = [budget EXCEPT !.ticks = @ - 1]

InitQueue ==
    /\ agents = [a \in AgentIds |-> StoredAgent(Str247, "LOGGED_OUT", <<>>)]
    /\ agentsMaster = AgentIds
    /\ loggedIn = [q \in QueueIds |-> {}]
    /\ rrPointer = [q \in QueueIds |-> NoVal]
    /\ calls = [q \in QueueIds |-> <<>>]
    /\ now = MonTen
    /\ call = [c \in Channels |-> IdleCall]
    /\ admin = IdleAdmin
    /\ budget = [admin |-> 0, ticks |-> MaxQueueOps]
    /\ rrHist = NoHist
    /\ qHist = NoQHist
    /\ timing = NoEval

\* addCallToQueue(queueId, record) with the record the router builds for
\* channel c; the clock moves on.
QAdd(queueId, c) ==
    /\ QueueOpsLeft
    /\ now.minute < MaxEnqueues
    /\ calls' = addCallToQueue(queueId, WaitingRecord(c))
    /\ now' = [now EXCEPT !.minute = @ + 1]
    /\ qHist' = [qHist EXCEPT !.op = "add", !.queueId = queueId, !.channelId = c,
                              !.before = calls[queueId], !.removed = 0,
                              !.record = NoRecord, !.wasClean = FALSE,
                              !.clean = @ \ {<<queueId, c>>}]
    /\ UNCHANGED <<agents, agentsMaster, loggedIn, rrPointer, call, admin, rrHist, timing>>

\* removeCallFromQueue(queueId, channelId).
QRemove(queueId, channelId) ==
    /\ QueueOpsLeft
    /\ calls' = removeCallFromQueue(queueId, channelId)
    /\ LET n == Len(calls[queueId]) - Len(calls'[queueId])
       IN  qHist' = [qHist EXCEPT !.op = "remove", !.queueId = queueId,
                                  !.channelId = channelId, !.before = calls[queueId],
                                  !.removed = n, !.record = NoRecord,
                                  !.wasClean = <<queueId, channelId>> \in qHist.clean,
                                  !.clean = IF n > 0 THEN @ \cup {<<queueId, channelId>>}
                                            ELSE @]
    /\ UNCHANGED <<agents, agentsMaster, loggedIn, rrPointer, now, call, admin, rrHist, timing>>

\* getNextCallFromQueue(queueId).
QNext(queueId) ==
    /\ QueueOpsLeft
    /\ LET result == getNextCallFromQueue(queueId)
       IN  /\ calls' = result.calls
           /\ qHist' = [qHist EXCEPT !.op = "next", !.queueId = queueId, !.channelId = "",
                                     !.before = calls[queueId], !.removed = 0,
                                     !.record = result.record, !.wasClean = FALSE]
    /\ UNCHANGED <<agents, agentsMaster, loggedIn, rrPointer, now, call, admin, rrHist, timing>>

NextQueue ==
    \/ \E q \in QueueIds, c \in Channels : QAdd(q, c)
    \/ \E q \in QueueIds, c \in Channels : QRemove(q, c)
    \/ \E q \in QueueIds : QNext(q)

SpecQueue == InitQueue /\ [][NextQueue]_vars

\* C17: a removeCallFromQueue for a queue and channel for which an earlier
\* removal took out a record, with no enqueue of that channel in that queue
\* since, reports 0 and leaves the waiting list as it was.
C17_RemoveIdempotent ==
    (qHist.op = "remove" /\ qHist.wasClean) =>
        /\ qHist.removed = 0
        /\ calls[qHist.queueId] = qHist.before

\* A further removal of a channel was made on a list that holds a record of
\* the other channel, after an earlier removal had taken the channel's
\* records out.
C17_Witness ==
    /\ qHist.op = "remove" /\ qHist.wasClean
    /\ qHist.before # <<>>

\* The record of list enqueued earliest.
Earliest(list) ==
    CHOOSE r \in Range(list) :
        \A o \in Range(list) : r.enqueueTime.minute <= o.enqueueTime.minute

\* C18: getNextCallFromQueue returns the record enqueued earliest among
\* those present and takes that record, and no other, from the list; on an
\* empty list it returns nothing.
C18_HeadIsEarliest ==
    qHist.op = "next" =>
        IF qHist.before = <<>>
        THEN qHist.record = NoRecord /\ calls[qHist.queueId] = <<>>
        ELSE /\ qHist.record = Earliest(qHist.before)
             /\ <<qHist.record>> \o calls[qHist.queueId] = qHist.before

\* A pop from a list of two records, made after a removal had taken a record
\* out of that list.
C18_Witness ==
    /\ qHist.op = "next"
    /\ Len(qHist.before) = 2
    /\ \E c \in Channels : <<qHist.queueId, c>> \in qHist.clean

(***************************************************************************)
(* SpecAdmin: addAgent, agentLogin and agentLogout called one after the    *)
(* other, with no call being routed                                        *)
(***************************************************************************)

MaxAdminCalls == 3

\* Agents "1" and "2" are logged into Q1 as in Init; agent "10" has not been
\* added.
InitAdmin ==
    /\ agents = [a \in AgentIds |->
                   CASE a = A1 -> StoredAgent(Str247, "AVAILABLE", <<"Q1">>)
                     [] a = A2 -> StoredAgent(BizHours, "AVAILABLE", <<"Q1">>)
                     [] OTHER -> EmptyAgentHash]
    /\ agentsMaster = {A1, A2}
    /\ loggedIn = [q \in QueueIds |-> IF q = "Q1" THEN {A1, A2} ELSE {}]
    /\ rrPointer = [q \in QueueIds |-> NoVal]
    /\ calls = [q \in QueueIds |-> <<>>]
    /\ now = MonTen
    /\ call = [c \in Channels |-> IdleCall]
    /\ admin = IdleAdmin
    /\ budget = [admin |-> MaxAdminCalls, ticks |-> MaxTicks]
    /\ rrHist = NoHist
    /\ qHist = NoQHist
    /\ timing = NoEval

NextAdmin == AdminStep \/ Tick

SpecAdmin == InitAdmin /\ [][NextAdmin]_vars

\* The agent of the operation that returned last has the status and the
\* loggedInQueues it had when the operation was called, and so has every
\* logged-in set its members.
NothingChanged ==
    /\ agents[admin.agentId].status = admin.before.agent.status
    /\ agents[admin.agentId].loggedInQueues = admin.before.agent.loggedInQueues
    /\ loggedIn = admin.before.loggedIn

\* C19: an agentLogin that returned a failure has left the agent's status
\* and loggedInQueues and every logged-in set as they were.
C19_FailedLoginChangesNothing ==
    (admin.last = "login" /\ admin.ret = "fail") => NothingChanged

\* C20: after an agentLogout that returned success the agent is LOGGED_OUT,
\* has no loggedInQueues and is in no logged-in set; an agentLogout of an
\* agent that was LOGGED_OUT returns a failure and changes nothing.
C20_LogoutLeavesEverywhere ==
    admin.last = "logout" =>
        /\ admin.ret = "ok" =>
               /\ agents[admin.agentId].status = "LOGGED_OUT"
               /\ agents[admin.agentId].loggedInQueues = <<>>
               /\ \A q \in QueueIds : admin.agentId \notin loggedIn[q]
        /\ admin.before.agent.status = "LOGGED_OUT" =>
               admin.ret = "fail" /\ NothingChanged

(***************************************************************************)
(* Claims on the entry path, its failures and the overlap of handlers      *)
(***************************************************************************)

\* Caller c entered without one of its routing variables, or with a QUEUE_ID
\* that names no queue.
Unroutable(c) ==
    call[c].pc # "idle" /\ (call[c].cc = "" \/ call[c].q \notin QueueIds)

PromptPlayed(c) == "play:sound:ss-noservice" \in Range(call[c].ops)

HangupRequested(c) == "hangup" \in Range(call[c].ops)

\* C21: a caller that enters with CALL_CENTER_ID or QUEUE_ID missing, or with
\* a QUEUE_ID that names no queue, is never played the no-service prompt, has
\* had its hangup requested when its handler is through, and none of its
\* steps writes to the store.
C21_SilentHangup ==
    /\ [](\A c \in Channels :
            Unroutable(c) =>
                /\ ~PromptPlayed(c)
                /\ (call[c].pc = "done" /\ call[c].state # "Hangup") => HangupRequested(c))
    /\ [][\A c \in Channels :
            (Unroutable(c) /\ call'[c] # call[c]) => store' = store]_vars

\* The StasisStart handler of caller c is suspended at an await: a store or
\* media-server request of lines 14, 37, 43, 45, 60, 72, 78, 82 or 173 is
\* pending. Once the origination is requested the handler has returned and
\* only callbacks remain.
Suspended(c) ==
    call[c].pc \in {"answer", "active", "play", "closedHangup", "details", "smembers",
                    "filter", "getptr", "setptr", "agentDetails", "requeueNoEndpoint",
                    "enqueue"}

\* The StasisEnd handler of caller c runs in this step.
StasisEndRuns(c) == call[c].live /\ ~call'[c].live

\* C22: the StasisEnd handler of a channel does not run while the StasisStart
\* handler of the same channel is suspended at a store or media-server
\* request, so the removal it makes never falls between two store requests
\* of that handler.
C22_HandlersSerialized ==
    [][\A c \in Channels : StasisEndRuns(c) => ~Suspended(c)]_vars

(***************************************************************************)
(* SpecTimings: parseTimings applied to rule strings written from time     *)
(* ranges and day-specs, alone and joined with a further rule by "|"       *)
(***************************************************************************)

DigitChars == <<"0", "1", "2", "3", "4", "5", "6", "7", "8", "9">>

TwoDigits(n) == <<DigitChars[(n \div 10) + 1], DigitChars[(n % 10) + 1]>>

\* HH:MM of a minute of day.
FormatTime(m) == TwoDigits(m \div 60) \o <<":">> \o TwoDigits(m % 60)

FormatRange(rg) == FormatTime(rg.start) \o <<"-">> \o FormatTime(rg.end)

RECURSIVE JoinWith(_, _)
JoinWith(strs, sep) ==
    IF Len(strs) = 1 THEN strs[1]
    ELSE strs[1] \o <<sep>> \o JoinWith(Tail(strs), sep)

\* <time-ranges>;<day-spec>
FormatRule(ranges, days) ==
    JoinWith([i \in 1..Len(ranges) |-> FormatRange(ranges[i])], ",") \o <<";">> \o days

\* Start and end minutes of the ranges: midnight, 09:00 and 17:00.
TimePoints == {0, 540, 1020}

\* One range, or a range followed by 17:00-00:00.
RangeLists ==
    LET one == {<<[start |-> a, end |-> b]>> : a \in TimePoints, b \in TimePoints}
    IN  one \cup {rl \o <<[start |-> 1020, end |-> 0]>> : rl \in one}

\* Day-specs: a single day, a range of days, a list, a range over the week end.
DaySpecs ==
    {<<"M", "o", "n">>,
     <<"M", "o", "n", "-", "F", "r", "i">>,
     <<"S", "a", "t", ",", "S", "u", "n">>,
     <<"F", "r", "i", "-", "M", "o", "n">>}

SatRule ==
    <<"1", "0", ":", "0", "0", "-", "1", "4", ":", "0", "0", ";", "S", "a", "t">>

\* The rules added to a rule string: a well-formed one, the empty string, one
\* with a non-numeric hour, and 24/7 written as a rule.
ExtraRules ==
    {SatRule, <<>>,
     <<"x", "x", ":", "0", "0", "-", "1", "7", ":", "0", "0", ";", "M", "o", "n">>,
     Str247}

TimingInstants ==
    {[day |-> d, hour |-> hm[1], minute |-> hm[2]] :
        d \in {1, 6},
        hm \in {<<0, 0>>, <<8, 59>>, <<9, 0>>, <<10, 0>>, <<16, 59>>, <<17, 0>>, <<23, 59>>}}

InitTimings ==
    /\ agents = [a \in AgentIds |-> StoredAgent(Str247, "LOGGED_OUT", <<>>)]
    /\ agentsMaster = AgentIds
    /\ loggedIn = [q \in QueueIds |-> {}]
    /\ rrPointer = [q \in QueueIds |-> NoVal]
    /\ calls = [q \in QueueIds |-> <<>>]
    /\ now = MonTen
    /\ call = [c \in Channels |-> IdleCall]
    /\ admin = IdleAdmin
    /\ budget = [admin |-> 0, ticks |-> 0]
    /\ rrHist = NoHist
    /\ qHist = NoQHist
    /\ \E r \in ExtraRules, t \in TimingInstants :
         \/ timing = [NoEval EXCEPT !.form = "always", !.s = Str247, !.r = r, !.t = t,
                                    !.pc = "args"]
         \/ \E rl \in RangeLists, ds \in DaySpecs :
              timing = [NoEval EXCEPT !.form = "rules", !.ranges = rl, !.days = ds,
                                      !.s = FormatRule(rl, ds), !.r = r, !.t = t,
                                      !.pc = "args"]

\* parseTimings(s, t) returns.
ParseSingle ==
    /\ timing.pc = "args"
    /\ timing' = [timing EXCEPT !.pc = "single", !.res = parseTimings(timing.s, timing.t)]
    /\ UNCHANGED <<store, now, call, admin, budget, rrHist, qHist>>

\* parseTimings(r + "|" + s, t) and parseTimings(s + "|" + r, t) return.
ParseJoined ==
    /\ timing.pc = "single"
    /\ timing' = [timing EXCEPT
                    !.pc = "joined",
                    !.left = parseTimings(timing.r \o <<"|">> \o timing.s, timing.t),
                    !.right = parseTimings(timing.s \o <<"|">> \o timing.r, timing.t)]
    /\ UNCHANGED <<store, now, call, admin, budget, rrHist, qHist>>

NextTimings == ParseSingle \/ ParseJoined

SpecTimings == InitTimings /\ [][NextTimings]_vars

\* C23: when parseTimings(s, t) is true, parseTimings of s joined with a
\* further rule r by "|", in either order, is true as well.
C23_MonotoneUnderUnion ==
    (timing.pc = "joined" /\ timing.res) => (timing.left /\ timing.right)

(***************************************************************************)
(* Claims on overlapping selections and on the failures after selection    *)
(***************************************************************************)

\* The selector has returned an agent to the handler of caller c.
SelectorReturned(c) ==
    call[c].agent # NoVal /\ call[c].pc \notin {"getptr", "setptr"}

\* The pointer of the queue of caller c is read in this step.
ReadsPointer(c) == call[c].pc = "getptr" /\ call'[c].pc = "setptr"

\* The pointer of the queue of caller c is written in this step and the
\* selector returns.
WritesPointer(c) == call[c].pc = "setptr" /\ call'[c].pc # "setptr"

\* C24: of two selections for one queue that overlap over an eligible list
\* of two or more agents, neither reads the pointer between the pointer read
\* and the pointer write of the other; they return different agents and each
\* pointer write leaves the pointer at the agent then returned.
C24_OverlappingSelections ==
    /\ [](\A c, d \in Channels :
            (/\ c # d /\ call[c].q = call[d].q
             /\ SelectorReturned(c) /\ SelectorReturned(d)
             /\ Cardinality(EligibleSet(call[c].q, now)) >= 2)
                => call[c].agent # call[d].agent)
    /\ [][\A c, d \in Channels :
            /\ (c # d /\ call[c].q = call[d].q /\ ReadsPointer(c))
                   => call[d].pc # "setptr"
            /\ WritesPointer(c) => rrPointer'[call[c].q] = call'[c].agent]_vars

\* The agent channel of caller c is destroyed in this step, before the two
\* channels were joined in a bridge.
LegDestroyedBeforeBridge(c) ==
    call[c].leg \in {"dialing", "inApp"} /\ call'[c].leg = "destroyed" /\ ~call[c].bridged

\* C25: when the agent leg is destroyed before the bridge, a re-queue of the
\* caller is started if and only if the caller channel is still in the
\* application; the re-queue appends one record of the caller at the tail of
\* its queue, starts on-hold media and leaves the agent AVAILABLE.
C25_LegDestroyedRequeue ==
    [][\A c \in Channels :
          /\ LegDestroyedBeforeBridge(c) => ((call'[c].dpc = "requeue") <=> call[c].live)
          /\ (call[c].dpc = "requeue" /\ call'[c].dpc = "done") =>
                /\ AppendedFor(calls[call[c].q], calls'[call[c].q], c)
                /\ call'[c].ops = Append(call[c].ops, "startMoh")
                /\ agents'[call[c].agent].status = "AVAILABLE"]_vars

\* The bridge of caller c could not be created, or the channels could not be
\* added to it, in this step.
BridgeFails(c) == call[c].pc \in {"bridgeCreate", "addChannel"} /\ call'[c].pc = "done"

\* A bridge failure of caller c has been handled.
BridgeFailed(c) == call[c].bridge \in {"createFailed", "destroyed"}

\* C26: when bridge.create or addChannel fails, a hangup is requested on the
\* caller channel and on the agent channel, a bridge that was created is
\* destroyed and the agent is AVAILABLE; from then on no waiting record of
\* the caller is written.
C26_BridgeFailureCleanup ==
    [][\A c \in Channels :
          /\ BridgeFails(c) =>
                /\ call'[c].ops = Append(call[c].ops, "hangup")
                /\ call'[c].legOps = Append(call[c].legOps, "hangup")
                /\ call[c].bridge = "created" => call'[c].bridge = "destroyed"
                /\ agents'[call[c].agent].status = "AVAILABLE"
                /\ calls' = calls
          /\ BridgeFailed(c) => RecordCount(c)' <= RecordCount(c)]_vars

C27_State ==
    \A c \in Channels :
        call[c].selFailed =>
            /\ call[c].pc \in {"enqueue", "queued"}
            /\ call[c].agent = NoVal /\ call[c].leg = "none"
            /\ "originate" \notin Range(call[c].ops)
            /\ ~HangupRequested(c)
            /\ (call[c].pc = "queued" /\ call[c].live) => RecordCount(c) = 1

C27_Step ==
    \A c \in Channels :
        /\ (call'[c].selFailed /\ ~call[c].selFailed) =>
               /\ store' = store
               /\ call'[c].pc = "enqueue" /\ call'[c].ops = call[c].ops
        /\ call[c].selFailed => EnqueuesAtTail(c, "enqueue")

\* C27: when the selector fails on a store request, the router does what it
\* does for NONE: the failure itself writes nothing, one record of the caller
\* is appended at the tail of its queue and on-hold media is started; no
\* hangup and no origination is requested.
C27_SelectorFailureEnqueues == []C27_State /\ [][C27_Step]_vars

\* The selector of this caller failed while the other caller was waiting
\* already: the pointer of the queue is still unset and the caller waits
\* behind the other one, on hold.
C27_Witness ==
    \E c \in Channels :
        /\ call[c].selFailed /\ call[c].pc = "queued" /\ call[c].live
        /\ call[c].ops # <<>> /\ call[c].ops[Len(call[c].ops)] = "startMoh"
        /\ Len(calls[call[c].q]) = 2
        /\ calls[call[c].q][2].ariChannelId = c
        /\ rrPointer[call[c].q] = NoVal

(***************************************************************************)
(* Claims on the time ranges of a rule                                     *)
(***************************************************************************)

\* The weekdays (0 is Sunday) each day-spec of DaySpecs stands for.
DaysOf(ds) ==
    CASE ds = <<"M", "o", "n">> -> {1}
      [] ds = <<"M", "o", "n", "-", "F", "r", "i">> -> 1..5
      [] ds = <<"S", "a", "t", ",", "S", "u", "n">> -> {0, 6}
      [] OTHER -> {5, 6, 0, 1}

\* The end minute of a range: 00:00 after a nonzero start is the end of day.
EndMinute(rg) == IF rg.end = 0 /\ rg.start > 0 THEN 1440 ELSE rg.end

\* Minute m lies in the range: start inclusive, end exclusive, nothing when
\* the start is after the end.
RangeContains(rg, m) == rg.start <= EndMinute(rg) /\ rg.start <= m /\ m < EndMinute(rg)

\* Of the rules of ExtraRules only 10:00-14:00;Sat admits an instant.
ExtraAdmits(r, t) ==
    r = SatRule /\ t.day = 6 /\ 600 <= t.hour * 60 + t.minute /\ t.hour * 60 + t.minute < 840

C29_AgentLegSkipsEntryPath == \A c \in Channels : call[c].legPc = "none"

\* C30: once the StasisEnd handler of a caller channel has run, no queue
\* holds a waiting record of that channel, then or later.
C30_GoneCallerNotQueued ==
    \A c \in Channels : call[c].ended => RecordCount(c) = 0

(***************************************************************************)
(* SpecStoreErr: Spec in which addCallToQueue may fail                     *)
(***************************************************************************)

\* addCallToQueue fails and nothing is written. When it resolves with
\* success false, the result is not looked at: lines 83 and 174 follow the
\* await, and the then of lines 109 and 165 runs, so on-hold media is
\* started. When it rejects, the handler of lines 82 and 173 ends there and
\* the catch of lines 110 and 166 only logs.
AddCallToQueueErr(c) ==
    /\ \E rejects \in BOOLEAN :
         \/ /\ call[c].pc \in {"requeueNoEndpoint", "enqueue", "requeueOriginate"}
            /\ call' = [call EXCEPT ![c] =
                          IF rejects
                          THEN [@ EXCEPT !.pc = "failed", !.rec = NoRecord]
                          ELSE [@ EXCEPT !.ops = Append(@, "startMoh"), !.pc = "queued",
                                         !.rec = NoRecord]]
         \/ /\ call[c].dpc = "requeue"
            /\ call' = [call EXCEPT ![c] =
                          IF rejects
                          THEN [@ EXCEPT !.dpc = "done", !.rec = NoRecord]
                          ELSE [@ EXCEPT !.ops = Append(@, "startMoh"), !.dpc = "done",
                                         !.rec = NoRecord]]
    /\ UNCHANGED <<store, now, admin, budget, rrHist, qHist, timing>>

NextStoreErr == Next \/ AddCallToQueueErr("c1")

SpecStoreErr == Init /\ [][NextStoreErr]_vars

\* On-hold media is started on caller channel c in this step.
StartsMoh(c) ==
    /\ Len(call'[c].ops) = Len(call[c].ops) + 1
    /\ call'[c].ops[Len(call'[c].ops)] = "startMoh"

\* C31: at every step that starts on-hold media on a caller channel, the
\* caller's queue holds a waiting record of that channel.
C31_OnHoldIsQueued ==
    [][\A c \in Channels :
          StartsMoh(c) =>
              /\ call[c].q \in QueueIds
              /\ \E i \in 1..Len(calls'[call[c].q]) :
                     calls'[call[c].q][i].ariChannelId = c]_vars

====
